---------------------------- MODULE Spec2Model ----------------------------
(***************************************************************************)
(* Website-heuristic analysis page (src/src/pages/WebTools.tsx).           *)
(*                                                                         *)
(* A JavaScript string is modelled as a sequence of characters, each       *)
(* character being a one-character TLA+ string ("U+00E9" stands for the    *)
(* single non-ASCII character e-acute), so that String.includes,           *)
(* String.startsWith, the /<img/g match and Blob.size are computed on the  *)
(* text and not assumed.  Numbers shown with toFixed(2) are exact dyadic   *)
(* rationals n / 2^10, which a double represents exactly, so the decimal   *)
(* rounding of toFixed is exact round-half-up.                             *)
(***************************************************************************)
EXTENDS Integers, Sequences, FiniteSets, TLC

VARIABLES
    url,          \* useState url (line 35)
    report,       \* useState report (line 36)
    errors,       \* useState errors (line 37)
    isLoading,    \* useState isLoading (line 38)
    consoleLogs,  \* useState consoleLogs (line 39), timestamps left out
    status,       \* useState status (line 40)
    toasts,       \* the last toast shown through useToast (line 41)
    pc,           \* where the running analyzeWebsite call is suspended
    reqUrl,       \* the url captured by the running analyzeWebsite closure
    html,         \* const html of the running call (line 103)
    loadTime,     \* const loadTime of the running call (line 106), in 2^-10 s
    attempts      \* the calls of fetch made by the running call, with outcome

\* The page that delegates the analysis to a broadcast channel
\* (src/unnamed/part_000, lines 23-99)
VARIABLES
    viewUrl,      \* useState url (line 24)
    analyzing,    \* useState analyzing (line 25)
    results,      \* useState results (lines 26-46)
    viewLogs,     \* useState logs (line 48), timestamps left out
    viewToast,    \* the last toast shown through useToast (line 50)
    sending,      \* the number of channel.send calls that have not settled (line 94)
    lastSend,     \* how the last settled send ended
    lifecycle,    \* "rendered", "subscribed" (after the effect) or "unmounted"
    channel       \* the broadcasts of 'analysis-updates' on their way to this view

\* The handler of git operations (src/unnamed/part_000, lines 199-404)
VARIABLES
    gitPc,        \* where the handler of the current request is suspended
    gitReq,       \* the body of the current request (line 205)
    gitCalls,     \* the remote calls of the current request, with outcome
    rows,         \* the rows of the table 'repositories'
    gitResp       \* the response to the last request

pageVars == <<url, report, errors, isLoading, consoleLogs, status, toasts, pc,
              reqUrl, html, loadTime, attempts>>

viewVars == <<viewUrl, analyzing, results, viewLogs, viewToast, sending, lastSend,
              lifecycle, channel>>

gitVars == <<gitPc, gitReq, gitCalls, rows, gitResp>>

vars == <<pageVars, viewVars, gitVars>>

-----------------------------------------------------------------------------
(* Bounds *)

\* The HTML documents of FragDocs are put together from at most MaxFrags fragments.
MaxFrags == 2

-----------------------------------------------------------------------------
(* Strings *)

RECURSIVE Str(_)
\* The TLA+ string spelled by a sequence of characters.
Str(s) == IF s = <<>> THEN "" ELSE Head(s) \o Str(Tail(s))

\* s has needle at position i (1-based).
MatchAt(s, needle, i) ==
    /\ i + Len(needle) - 1 <= Len(s)
    /\ \A k \in 1..Len(needle) : s[i + k - 1] = needle[k]

\* String.prototype.includes
Includes(s, needle) == \E i \in 1..(Len(s) - Len(needle) + 1) : MatchAt(s, needle, i)

\* String.prototype.startsWith
StartsWith(s, prefix) == MatchAt(s, prefix, 1)

RECURSIVE CountFrom(_, _, _)
\* Number of non-overlapping matches of needle in s from position i on, scanning
\* left to right as a global regular expression does.
CountFrom(s, needle, i) ==
    IF i + Len(needle) - 1 > Len(s) THEN 0
    ELSE IF MatchAt(s, needle, i) THEN 1 + CountFrom(s, needle, i + Len(needle))
    ELSE CountFrom(s, needle, i + 1)

\* (s.match(/needle/g) || []).length
MatchCount(s, needle) == CountFrom(s, needle, 1)

\* Characters outside ASCII that the model uses; each takes two bytes in UTF-8.
TwoByteChars == {"U+00E9"}

RECURSIVE Utf8Len(_)
\* new Blob([s]).size: the length of the UTF-8 encoding of s.
Utf8Len(s) ==
    IF s = <<>> THEN 0
    ELSE (IF Head(s) \in TwoByteChars THEN 2 ELSE 1) + Utf8Len(Tail(s))

\* (num / den).toFixed(2) for an exactly representable num / den >= 0: the
\* nearest multiple of 0.01, the larger one on a tie, with two decimals.
ToFixed2(num, den) ==
    LET n == (200 * num + den) \div (2 * den)
        frac == n % 100
    IN  ToString(n \div 100) \o "." \o (IF frac < 10 THEN "0" ELSE "") \o ToString(frac)

-----------------------------------------------------------------------------
(* The literals the checks look for (lines 108-128) *)

\* '<img' (lines 108, 124)
ImgMarker ==
    <<"<", "i", "m", "g">>

\* line 111
ViewportMarker ==
    <<"n", "a", "m", "e", "=", "\"", "v", "i", "e", "w", "p", "o", "r", "t", "\"">>

\* line 112
IconMarker ==
    <<"r", "e", "l", "=", "\"", "i", "c", "o", "n", "\"">>

\* line 112
ShortcutIconMarker ==
    <<"r", "e", "l", "=", "\"", "s", "h", "o", "r", "t", "c", "u", "t", " ", "i", "c", "o", "n", "\"">>

\* line 113
DescriptionMarker ==
    <<"n", "a", "m", "e", "=", "\"", "d", "e", "s", "c", "r", "i", "p", "t", "i", "o", "n", "\"">>

\* line 114
H1Marker ==
    <<"<", "h", "1">>

\* line 115
CanonicalMarker ==
    <<"r", "e", "l", "=", "\"", "c", "a", "n", "o", "n", "i", "c", "a", "l", "\"">>

\* line 116
HttpsPrefix ==
    <<"h", "t", "t", "p", "s", ":", "/", "/">>

\* line 117
RobotsMarker ==
    <<"r", "o", "b", "o", "t", "s", ".", "t", "x", "t">>

\* line 118
SitemapMarker ==
    <<"s", "i", "t", "e", "m", "a", "p", ".", "x", "m", "l">>

\* line 121
SchemaMarker ==
    <<"a", "p", "p", "l", "i", "c", "a", "t", "i", "o", "n", "/", "l", "d", "+", "j", "s", "o", "n">>

\* line 122
OpenGraphMarker ==
    <<"p", "r", "o", "p", "e", "r", "t", "y", "=", "\"", "o", "g", ":">>

\* line 123
TwitterMarker ==
    <<"n", "a", "m", "e", "=", "\"", "t", "w", "i", "t", "t", "e", "r", ":">>

\* line 124
AltMarker ==
    <<"a", "l", "t", "=", "\"">>

\* line 125
LangMarker ==
    <<"<", "h", "t", "m", "l", " ", "l", "a", "n", "g", "=", "\"">>

\* line 126
ContextMarker ==
    <<"@", "c", "o", "n", "t", "e", "x", "t">>

\* line 127
AmpMarker ==
    <<"a", "m", "p", "h", "t", "m", "l">>

\* line 128
ManifestMarker ==
    <<"m", "a", "n", "i", "f", "e", "s", "t", ".", "j", "s", "o", "n">>

-----------------------------------------------------------------------------
(* The analysis of analyzeWebsite (lines 106-227) *)

\* Math.random() draws r / 2^10 from [0, 1); these are the draws the model takes.
RandomDraws == {0, 512, 513, 1023}

\* The draws taken in the specification of the whole page: one on each side of
\* the two-second threshold.
PageDraws == {512, 513}

\* Mutant of LoadTimeOf: the offset of half a second is lost.
LoadTimeOfNoOffset(r) == r * 3

\* Math.random() * 3 + 0.5, in units of 2^-10 s (line 106)
LoadTimeOf(r) == r * 3 + 512

\* One second, in the units of loadTime.
Second == 2^10

\* new Blob([html]).size, the numerator of htmlSize over 1024 (line 107)
htmlSize(h) == Utf8Len(h)

imagesCount(h) == MatchCount(h, ImgMarker)

hasViewport(h) == Includes(h, ViewportMarker)

\* Mutant of hasFavicon: the shortcut icon is not looked for.
hasFaviconIconOnly(h) == Includes(h, IconMarker)

hasFavicon(h) == Includes(h, IconMarker) \/ Includes(h, ShortcutIconMarker)

hasMetaDescription(h) == Includes(h, DescriptionMarker)

hasH1(h) == Includes(h, H1Marker)

hasCanonical(h) == Includes(h, CanonicalMarker)

\* Mutant of hasHttps: the prefix is 'http'.
hasHttpsHttp(u) == StartsWith(u, <<"h", "t", "t", "p">>)

hasHttps(u) == StartsWith(u, HttpsPrefix)

hasRobotsTxt(h) == Includes(h, RobotsMarker)

hasSitemap(h) == Includes(h, SitemapMarker)

hasSchema(h) == Includes(h, SchemaMarker)

hasOpenGraph(h) == Includes(h, OpenGraphMarker)

hasTwitterCards(h) == Includes(h, TwitterMarker)

\* Mutant of hasAltTags: a text without images does not pass.
hasAltTagsStrict(h) == Includes(h, ImgMarker) /\ Includes(h, AltMarker)

\* Mutant of hasAltTags: only the alt attribute is looked for.
hasAltTagsAltOnly(h) == Includes(h, AltMarker)

hasAltTags(h) == ~Includes(h, ImgMarker) \/ Includes(h, AltMarker)

hasLangAttribute(h) == Includes(h, LangMarker)

hasStructuredData(h) == Includes(h, ContextMarker)

hasAmpVersion(h) == Includes(h, AmpMarker)

hasManifest(h) == Includes(h, ManifestMarker)

\* flag ? "Present" : "Missing"
PresentOrMissing(flag) == IF flag THEN "Present" ELSE "Missing"

\* Mutant of Metric: the two fields are swapped.
MetricSwapped(m, v) == [metric |-> v, value |-> m]

\* One entry of the report.
Metric(m, v) == [metric |-> m, value |-> v]

\* const newReport (lines 132-152)
newReport(u, h, lt) ==
    << Metric("Page Load Time", ToFixed2(lt, Second) \o "s"),
       Metric("Page Size", ToFixed2(htmlSize(h), 1024) \o " KB"),
       Metric("Images Count", ToString(imagesCount(h))),
       Metric("Mobile Viewport", PresentOrMissing(hasViewport(h))),
       Metric("Meta Description", PresentOrMissing(hasMetaDescription(h))),
       Metric("Favicon", PresentOrMissing(hasFavicon(h))),
       Metric("H1 Tag", PresentOrMissing(hasH1(h))),
       Metric("Canonical Tag", PresentOrMissing(hasCanonical(h))),
       Metric("HTTPS", IF hasHttps(u) THEN "Yes" ELSE "No"),
       Metric("Robots.txt", PresentOrMissing(hasRobotsTxt(h))),
       Metric("Sitemap", PresentOrMissing(hasSitemap(h))),
       Metric("Schema Markup", PresentOrMissing(hasSchema(h))),
       Metric("Open Graph Tags", PresentOrMissing(hasOpenGraph(h))),
       Metric("Twitter Cards", PresentOrMissing(hasTwitterCards(h))),
       Metric("Image Alt Tags", PresentOrMissing(hasAltTags(h))),
       Metric("HTML Lang Attribute", PresentOrMissing(hasLangAttribute(h))),
       Metric("Structured Data", PresentOrMissing(hasStructuredData(h))),
       Metric("AMP Version", PresentOrMissing(hasAmpVersion(h))),
       Metric("Web App Manifest", PresentOrMissing(hasManifest(h))) >>

\* One entry of the findings.
Finding(t, d, s) == [type |-> t, description |-> d, severity |-> s]

\* Mutant of PushIf: unshift in place of push.
PushIfFront(list, cond, e) == IF cond THEN <<e>> \o list ELSE list

\* if (cond) newErrors.push(e)
PushIf(list, cond, e) == IF cond THEN Append(list, e) ELSE list

\* The findings the rules can push, in the order the rules are evaluated
\* (lines 157-227).
SecurityFinding == Finding("Security", "Website is not using HTTPS", "high")
PerformanceFinding == Finding("Performance", "Page load time is above 2 seconds", "high")
MobileFinding == Finding("Mobile", "Missing viewport meta tag for mobile optimization", "high")
DescriptionFinding == Finding("SEO", "Missing meta description", "medium")
H1Finding == Finding("SEO", "Missing H1 heading", "medium")
SchemaFinding == Finding("SEO", "Missing Schema markup", "medium")
SocialFinding == Finding("Social", "Missing Open Graph tags", "medium")
AltFinding == Finding("Accessibility", "Images missing alt tags", "high")
LangFinding == Finding("Accessibility", "Missing HTML lang attribute", "medium")

\* Mutant of newErrors: the last rule has lost its negation.
newErrorsLangInverted(u, h, lt) ==
    LET e0 == <<>>
        e1 == PushIf(e0, ~hasHttps(u), SecurityFinding)
        e2 == PushIf(e1, lt > 2 * Second, PerformanceFinding)
        e3 == PushIf(e2, ~hasViewport(h), MobileFinding)
        e4 == PushIf(e3, ~hasMetaDescription(h), DescriptionFinding)
        e5 == PushIf(e4, ~hasH1(h), H1Finding)
        e6 == PushIf(e5, ~hasSchema(h), SchemaFinding)
        e7 == PushIf(e6, ~hasOpenGraph(h), SocialFinding)
        e8 == PushIf(e7, ~hasAltTags(h), AltFinding)
        e9 == PushIf(e8, hasLangAttribute(h), LangFinding)
    IN  e9

\* const newErrors after the nine rules (lines 154-227)
newErrors(u, h, lt) ==
    LET e0 == <<>>
        e1 == PushIf(e0, ~hasHttps(u), SecurityFinding)
        e2 == PushIf(e1, lt > 2 * Second, PerformanceFinding)
        e3 == PushIf(e2, ~hasViewport(h), MobileFinding)
        e4 == PushIf(e3, ~hasMetaDescription(h), DescriptionFinding)
        e5 == PushIf(e4, ~hasH1(h), H1Finding)
        e6 == PushIf(e5, ~hasSchema(h), SchemaFinding)
        e7 == PushIf(e6, ~hasOpenGraph(h), SocialFinding)
        e8 == PushIf(e7, ~hasAltTags(h), AltFinding)
        e9 == PushIf(e8, ~hasLangAttribute(h), LangFinding)
    IN  e9

-----------------------------------------------------------------------------
(* Inputs *)

\* a valid http url
UrlHttp ==
    <<"h", "t", "t", "p", ":", "/", "/", "a", ".", "i", "o">>

\* a valid https url
UrlHttps ==
    <<"h", "t", "t", "p", "s", ":", "/", "/", "a", ".", "i", "o">>

\* a valid url whose scheme is spelled in capitals
UrlUpper ==
    <<"H", "T", "T", "P", "S", ":", "/", "/", "a", ".", "i", "o">>

\* a valid url with a non-special scheme
UrlMailto ==
    <<"m", "a", "i", "l", "t", "o", ":", "a">>

\* no scheme: new URL throws
UrlNoScheme ==
    <<"a", ".", "i", "o">>

\* an h1 tag spelled in capitals
UpperH1 ==
    <<"<", "H", "1">>

\* an icon link with single quotes
SingleQuoteIcon ==
    <<"r", "e", "l", "=", "'", "i", "c", "o", "n", "'">>

\* A valid url that ends in a lone surrogate ("U+D800" stands for that one
\* code unit): new URL reads it as U+FFFD, encodeURIComponent throws on it.
UrlLoneSurrogate == UrlHttp \o <<"/", "U+D800">>

\* A special scheme without a host: new URL throws.
UrlNoHost == <<"h", "t", "t", "p", ":", "/", "/">>

\* What the url field can hold.
Urls ==
    { <<>>, UrlNoScheme, UrlNoHost, UrlHttp, UrlHttps, UrlUpper, UrlMailto,
      UrlLoneSurrogate }

\* Code units that are half of a surrogate pair.
Surrogates == {"U+D800"}

\* encodeURIComponent(u) throws a URIError (line 54): u has a surrogate that
\* is not part of a pair.  The model has no surrogate pairs.
EncodeThrows(u) == \E i \in 1..Len(u) : u[i] \in Surrogates

LowerAlpha == <<"a", "b", "c", "d", "e", "f", "g", "h", "i", "j", "k", "l", "m",
                "n", "o", "p", "q", "r", "s", "t", "u", "v", "w", "x", "y", "z">>
UpperAlpha == <<"A", "B", "C", "D", "E", "F", "G", "H", "I", "J", "K", "L", "M",
                "N", "O", "P", "Q", "R", "S", "T", "U", "V", "W", "X", "Y", "Z">>
Digits == {"0", "1", "2", "3", "4", "5", "6", "7", "8", "9"}

\* ASCII lower-casing of one character.
ToLowerChar(c) ==
    IF \E i \in 1..26 : UpperAlpha[i] = c
    THEN LowerAlpha[CHOOSE i \in 1..26 : UpperAlpha[i] = c]
    ELSE c

IsAlpha(c) == \E i \in 1..26 : LowerAlpha[i] = ToLowerChar(c)

\* Schemes whose urls must have a host.
SpecialSchemes == {"http", "https", "ftp", "ws", "wss"}

RECURSIVE SkipSlashes(_)
SkipSlashes(s) ==
    IF s # <<>> /\ Head(s) \in {"/", "\\"} THEN SkipSlashes(Tail(s)) ELSE s

\* new URL(u) does not throw (line 87): u has a scheme, and a host when the
\* scheme is a special one.
ValidURL(u) ==
    \E i \in 2..Len(u) :
        /\ u[i] = ":"
        /\ IsAlpha(u[1])
        /\ \A j \in 2..(i - 1) : IsAlpha(u[j]) \/ u[j] \in Digits \cup {"+", "-", "."}
        /\ LET scheme == Str([j \in 1..(i - 1) |-> ToLowerChar(u[j])])
               rest == SkipSlashes(SubSeq(u, i + 1, Len(u)))
           IN  scheme \in SpecialSchemes =>
                   rest # <<>> /\ Head(rest) \notin {"?", "#", ":", "@"}

RECURSIVE Pick(_, _, _)
\* The fragments of frags whose index is in S, from index i on, concatenated.
Pick(frags, S, i) ==
    IF i > Len(frags) THEN <<>>
    ELSE (IF i \in S THEN frags[i] ELSE <<>>) \o Pick(frags, S, i + 1)

\* The pieces HTML documents are put together from: every literal the checks
\* look for, near misses of them, the halves of one, a second image and a
\* non-ASCII character.
Fragments ==
    << ImgMarker, ViewportMarker, IconMarker, ShortcutIconMarker, DescriptionMarker,
       H1Marker, CanonicalMarker, RobotsMarker, SitemapMarker, SchemaMarker,
       OpenGraphMarker, TwitterMarker, AltMarker, LangMarker, ContextMarker,
       AmpMarker, ManifestMarker, UpperH1, SingleQuoteIcon, <<"<", "h">>, <<"1">>,
       ImgMarker, <<"U+00E9">> >>

\* Documents of at most MaxFrags of the fragments, in the order of Fragments.
FragDocs ==
    { Pick(Fragments, { f[k] : k \in 1..MaxFrags }, 1) :
        f \in [1..MaxFrags -> 1..Len(Fragments)] }

\* The literals the findings depend on.
CoreFragments ==
    << ViewportMarker, DescriptionMarker, H1Marker, SchemaMarker, OpenGraphMarker,
       ImgMarker, LangMarker >>

\* Every combination of the literals the findings depend on.
CoreDocs == { Pick(CoreFragments, S, 1) : S \in SUBSET (1..Len(CoreFragments)) }

\* The texts a fetch can return to the analysis.
Htmls == CoreDocs \cup FragDocs

\* The texts a proxy returns in the specification of the whole page.
PageHtmls ==
    { <<>>, ImgMarker, Pick(CoreFragments, {1, 2, 3, 4, 5, 7}, 1) }

-----------------------------------------------------------------------------
(* The page (lines 34-250) *)

\* One entry of consoleLogs; the wall-clock timestamp is left out.
Log(message, type) == [message |-> message, type |-> type]

\* addConsoleLog (lines 43-49), a functional update of consoleLogs
addConsoleLog(logs, message, type) == Append(logs, Log(message, type))

\* What toast() was last called with.
Toast(title, description) == [title |-> title, description |-> description]

NoToast == Toast("", "")

\* One call of fetch and how it ended: "pending", "ok", or the message of the
\* error it ended with.
Attempt(proxy, outcome) == [proxy |-> proxy, outcome |-> outcome]

PrimaryProxy == "api.allorigins.win"
BackupProxy == "cors-anywhere.herokuapp.com"

\* The message of the TypeError a rejected fetch carries.
NetworkError == "Failed to fetch"

\* The message of the error a failed response.text() carries.
BodyError == "Failed to read body"

\* The statuses a proxy answers with when it does not answer OK.
FailStatuses == {503}

\* new Error(`HTTP error! status: ${response.status}`) (lines 58, 68)
HttpError(st) == "HTTP error! status: " \o ToString(st)

\* The errors a fetch can end with before a response arrived.
ResponseErrors == {NetworkError} \cup { HttpError(st) : st \in FailStatuses }

\* The state of the page that delegates the analysis (part_000, lines 13-50)

\* How many broadcasts can be on their way to the view at once.
MaxInFlight == 2

\* How many 'analysis-log' broadcasts are sent while the view shows its logs.
MaxViewLogs == 2

\* How many calls of channel.send can be unsettled at once.
MaxSends == 2

\* interface MetricResult (lines 13-16)
MetricResult(m, v) == [metric |-> m, value |-> v]

\* interface ConsoleLog (lines 17-21), without the wall-clock timestamp
ConsoleLog(message) == [message |-> message]

\* useState("https://pwaburton.co.uk") (line 24)
DefaultViewUrl ==
    <<"h", "t", "t", "p", "s", ":", "/", "/", "p", "w", "a", "b", "u", "r", "t", "o", "n", ".", "c", "o", ".", "u", "k">>

\* The results the view starts with (lines 26-46)
InitialResults ==
    << MetricResult("Page Load Time", "0.59s"),
       MetricResult("Page Size", "0.89 KB"),
       MetricResult("Images Count", "0"),
       MetricResult("Mobile Viewport", "Present"),
       MetricResult("Meta Description", "Present"),
       MetricResult("Favicon", "Missing"),
       MetricResult("H1 Tag", "Missing"),
       MetricResult("Canonical Tag", "Missing"),
       MetricResult("HTTPS", "Yes"),
       MetricResult("Robots.txt", "Missing"),
       MetricResult("Sitemap", "Missing"),
       MetricResult("Schema Markup", "Missing"),
       MetricResult("Open Graph Tags", "Present"),
       MetricResult("Twitter Cards", "Missing"),
       MetricResult("Image Alt Tags", "Present"),
       MetricResult("HTML Lang Attribute", "Present"),
       MetricResult("Structured Data", "Missing"),
       MetricResult("AMP Version", "Missing"),
       MetricResult("Web App Manifest", "Missing") >>

\* The state of the view after its first render (lines 24-50).
ViewInit ==
    /\ viewUrl = DefaultViewUrl
    /\ analyzing = FALSE
    /\ results = InitialResults
    /\ viewLogs = <<>>
    /\ viewToast = NoToast
    /\ sending = 0
    /\ lastSend = "none"
    /\ lifecycle = "rendered"
    /\ channel = <<>>

\* The state of the handler of git operations (part_000, lines 199-404)

\* The ids of the rows of 'repositories'.
RepoIds == {"r1", "r2"}

\* An id no row has, and the absent (undefined) id.
UnknownId == "r9"

NoId == ""

\* A row of 'repositories' as far as the handler reads and writes it.
Row(u, st, sha) == [url |-> u, status |-> st, last_commit |-> sha]

\* Urls of stored repositories: two the pattern of lines 239, 294 and 295
\* matches, one without a repository name, one whose name starts with a dot.
RepoUrlA ==
    <<"h", "t", "t", "p", "s", ":", "/", "/", "g", "i", "t", "h", "u", "b", ".", "c", "o", "m", "/", "o", "/", "a">>

RepoUrlB ==
    <<"h", "t", "t", "p", "s", ":", "/", "/", "g", "i", "t", "h", "u", "b", ".", "c", "o", "m", "/", "o", "/", "b", ".", "g", "i", "t">>

RepoUrlNoName ==
    <<"h", "t", "t", "p", "s", ":", "/", "/", "g", "i", "t", "h", "u", "b", ".", "c", "o", "m", "/", "o">>

RepoUrlDotName ==
    <<"h", "t", "t", "p", "s", ":", "/", "/", "g", "i", "t", "h", "u", "b", ".", "c", "o", "m", "/", "o", "/", ".", "b">>

RepoUrls == {RepoUrlA, RepoUrlB, RepoUrlNoName, RepoUrlDotName}

\* The response the handler returns: its status, whether its body is JSON,
\* and the fields success and message (or error) of the body.
Response(st, json, success, message) ==
    [status |-> st, json |-> json, success |-> success, message |-> message]

NoResponse == Response(0, FALSE, FALSE, "")

\* The body of a request (line 205); parses is false for a body req.json()
\* rejects.
Request(type, source, target) ==
    [parses |-> TRUE, type |-> type, sourceRepoId |-> source, targetRepoId |-> target]

BadBody ==
    [parses |-> FALSE, type |-> "", sourceRepoId |-> NoId, targetRepoId |-> NoId]

\* The handler before its first request, with two stored repositories.
GitInit ==
    /\ gitPc = "idle"
    /\ gitReq = BadBody
    /\ gitCalls = <<>>
    /\ rows = [id \in RepoIds |->
                   Row(IF id = "r1" THEN RepoUrlA ELSE RepoUrlB, "pending", "none")]
    /\ gitResp = NoResponse

TypeOK ==
    /\ url \in Urls
    /\ isLoading \in BOOLEAN
    /\ status \in {"idle", "loading", "success", "error"}
    /\ pc \in {"idle", "primary", "primaryBody", "backup", "backupBody"}
    /\ reqUrl \in Urls
    /\ Len(attempts) <= 2

Init ==
    /\ url = <<>>
    /\ report = <<>>
    /\ errors = <<>>
    /\ isLoading = FALSE
    /\ consoleLogs = <<>>
    /\ status = "idle"
    /\ toasts = NoToast
    /\ pc = "idle"
    /\ reqUrl = <<>>
    /\ html = <<>>
    /\ loadTime = 0
    /\ attempts = <<>>
    /\ ViewInit
    /\ GitInit

\* onChange of the url input (line 267)
setUrl(u) ==
    /\ url' = u
    /\ UNCHANGED <<report, errors, isLoading, consoleLogs, status, toasts, pc,
                   reqUrl, html, loadTime, attempts>>
    /\ UNCHANGED <<viewVars, gitVars>>

\* analyzeWebsite on an empty url (lines 77-84); the button is enabled only
\* while isLoading is false (line 270)
RejectEmpty ==
    /\ ~isLoading
    /\ url = <<>>
    /\ toasts' = Toast("Error", "Please enter a URL")
    /\ UNCHANGED <<url, report, errors, isLoading, consoleLogs, status, pc,
                   reqUrl, html, loadTime, attempts>>
    /\ UNCHANGED <<viewVars, gitVars>>

\* Mutant of RejectInvalid: the rejection is shown as a failed analysis.
RejectInvalidAsError ==
    /\ ~isLoading
    /\ url # <<>>
    /\ ~ValidURL(url)
    /\ toasts' = Toast("Error", "Please enter a valid URL")
    /\ status' = "error"
    /\ UNCHANGED <<url, report, errors, isLoading, consoleLogs, pc, reqUrl, html,
                   loadTime, attempts>>
    /\ UNCHANGED <<viewVars, gitVars>>

\* analyzeWebsite on a url that new URL rejects (lines 86-95)
RejectInvalid ==
    /\ ~isLoading
    /\ url # <<>>
    /\ ~ValidURL(url)
    /\ toasts' = Toast("Error", "Please enter a valid URL")
    /\ UNCHANGED <<url, report, errors, isLoading, consoleLogs, status, pc,
                   reqUrl, html, loadTime, attempts>>
    /\ UNCHANGED <<viewVars, gitVars>>

\* Mutant of StartAnalysis: the button is not disabled while a call is running.
StartAnalysisUnguarded ==
    /\ url # <<>>
    /\ ValidURL(url)
    /\ isLoading' = TRUE
    /\ status' = "loading"
    /\ LET logs ==
               addConsoleLog(
                   addConsoleLog(<<>>, "Starting analysis of " \o Str(url), "info"),
                   "Attempting to fetch " \o Str(url), "info")
       IN  IF EncodeThrows(url)
           THEN /\ consoleLogs' =
                       addConsoleLog(logs, "Primary proxy failed, trying backup proxy", "info")
                /\ attempts' = <<Attempt(BackupProxy, "pending")>>
                /\ pc' = "backup"
           ELSE /\ consoleLogs' =
                       addConsoleLog(logs, "Using primary proxy: allorigins.win", "info")
                /\ attempts' = <<Attempt(PrimaryProxy, "pending")>>
                /\ pc' = "primary"
    /\ reqUrl' = url
    /\ html' = <<>>
    /\ loadTime' = 0
    /\ UNCHANGED <<url, report, errors, toasts>>
    /\ UNCHANGED <<viewVars, gitVars>>

\* analyzeWebsite up to the first await: lines 97-100, then fetchWithProxy up
\* to its first fetch.  That is the fetch of the primary proxy (lines 52-56),
\* unless building the proxy url throws inside the try block (line 54): the
\* catch block then logs and fetches from the backup proxy (lines 63-66).
StartAnalysis ==
    /\ ~isLoading
    /\ url # <<>>
    /\ ValidURL(url)
    /\ isLoading' = TRUE
    /\ status' = "loading"
    /\ LET logs ==
               addConsoleLog(
                   addConsoleLog(<<>>, "Starting analysis of " \o Str(url), "info"),
                   "Attempting to fetch " \o Str(url), "info")
       IN  IF EncodeThrows(url)
           THEN /\ consoleLogs' =
                       addConsoleLog(logs, "Primary proxy failed, trying backup proxy", "info")
                /\ attempts' = <<Attempt(BackupProxy, "pending")>>
                /\ pc' = "backup"
           ELSE /\ consoleLogs' =
                       addConsoleLog(logs, "Using primary proxy: allorigins.win", "info")
                /\ attempts' = <<Attempt(PrimaryProxy, "pending")>>
                /\ pc' = "primary"
    /\ reqUrl' = url
    /\ html' = <<>>
    /\ loadTime' = 0
    /\ UNCHANGED <<url, report, errors, toasts>>
    /\ UNCHANGED <<viewVars, gitVars>>

\* Mutant of Analyze: html.match(/<img/g).length without the "|| []", which
\* throws on a text without images and ends in the catch block.
AnalyzeThrowing(logs, h, r) ==
    /\ html' = h
    /\ loadTime' = LoadTimeOf(r)
    /\ IF imagesCount(h) = 0
       THEN /\ status' = "error"
            /\ consoleLogs' =
                   addConsoleLog(logs, "Analysis failed: Cannot read properties of null",
                                 "error")
            /\ toasts' = Toast("Error", "Failed to analyze website.")
            /\ UNCHANGED <<report, errors>>
       ELSE /\ report' = newReport(reqUrl, h, LoadTimeOf(r))
            /\ errors' = newErrors(reqUrl, h, LoadTimeOf(r))
            /\ status' = "success"
            /\ consoleLogs' =
                   addConsoleLog(
                       addConsoleLog(logs, "Completed basic analysis", "success"),
                       "Analysis completed successfully", "success")
            /\ toasts' = Toast("Success", "Website analysis completed")
    /\ isLoading' = FALSE
    /\ pc' = "idle"

\* The analysis of the text h with the draw r, and the end of analyzeWebsite
\* on success (lines 106-237 and 247-249), after the logs `logs`.
Analyze(logs, h, r) ==
    /\ html' = h
    /\ loadTime' = LoadTimeOf(r)
    /\ report' = newReport(reqUrl, h, LoadTimeOf(r))
    /\ errors' = newErrors(reqUrl, h, LoadTimeOf(r))
    /\ status' = "success"
    /\ consoleLogs' =
           addConsoleLog(
               addConsoleLog(logs, "Completed basic analysis", "success"),
               "Analysis completed successfully", "success")
    /\ toasts' = Toast("Success", "Website analysis completed")
    /\ isLoading' = FALSE
    /\ pc' = "idle"

\* The outcome of the last attempt is set.
Settle(atts, outcome) == [atts EXCEPT ![Len(atts)].outcome = outcome]

\* The primary proxy answers OK (lines 56-60): the body is awaited.
PrimaryResponds ==
    /\ pc = "primary"
    /\ pc' = "primaryBody"
    /\ UNCHANGED <<url, report, errors, isLoading, consoleLogs, status, toasts,
                   reqUrl, html, loadTime, attempts>>
    /\ UNCHANGED <<viewVars, gitVars>>

\* The body of the primary answer arrives (lines 60-62), and the analysis runs.
PrimaryBody(h, r) ==
    /\ pc = "primaryBody"
    /\ attempts' = Settle(attempts, "ok")
    /\ Analyze(addConsoleLog(consoleLogs, "Successfully fetched content", "success"), h, r)
    /\ UNCHANGED <<url, reqUrl>>
    /\ UNCHANGED <<viewVars, gitVars>>

\* The primary attempt fails with the message err: the catch block logs and
\* fetches from the backup proxy (lines 63-66).
PrimaryFails(err) ==
    /\ \/ pc = "primary" /\ err \in ResponseErrors
       \/ pc = "primaryBody" /\ err = BodyError
    /\ consoleLogs' =
           addConsoleLog(consoleLogs, "Primary proxy failed, trying backup proxy", "info")
    /\ attempts' = Append(Settle(attempts, err), Attempt(BackupProxy, "pending"))
    /\ pc' = "backup"
    /\ UNCHANGED <<url, report, errors, isLoading, status, toasts, reqUrl, html,
                   loadTime>>
    /\ UNCHANGED <<viewVars, gitVars>>

\* The backup proxy answers OK (lines 66-70): the body is awaited.
BackupResponds ==
    /\ pc = "backup"
    /\ pc' = "backupBody"
    /\ UNCHANGED <<url, report, errors, isLoading, consoleLogs, status, toasts,
                   reqUrl, html, loadTime, attempts>>
    /\ UNCHANGED <<viewVars, gitVars>>

\* The body of the backup answer arrives (lines 70-72), and the analysis runs.
BackupBody(h, r) ==
    /\ pc = "backupBody"
    /\ attempts' = Settle(attempts, "ok")
    /\ Analyze(addConsoleLog(consoleLogs,
                   "Successfully fetched content using backup proxy", "success"), h, r)
    /\ UNCHANGED <<url, reqUrl>>
    /\ UNCHANGED <<viewVars, gitVars>>

\* Mutant of BackupFails: the finally block is missing.
BackupFailsNoFinally(err) ==
    /\ \/ pc = "backup" /\ err \in ResponseErrors
       \/ pc = "backupBody" /\ err = BodyError
    /\ attempts' = Settle(attempts, err)
    /\ status' = "error"
    /\ consoleLogs' = addConsoleLog(consoleLogs, "Analysis failed: " \o err, "error")
    /\ toasts' =
           Toast("Error",
                 "Failed to analyze website. The website might be blocking access or temporarily unavailable.")
    /\ pc' = "idle"
    /\ UNCHANGED <<url, report, errors, isLoading, reqUrl, html, loadTime>>
    /\ UNCHANGED <<viewVars, gitVars>>

\* Mutant of BackupFails: the stored report and findings are cleared.
BackupFailsClearing(err) ==
    /\ \/ pc = "backup" /\ err \in ResponseErrors
       \/ pc = "backupBody" /\ err = BodyError
    /\ attempts' = Settle(attempts, err)
    /\ status' = "error"
    /\ consoleLogs' = addConsoleLog(consoleLogs, "Analysis failed: " \o err, "error")
    /\ toasts' =
           Toast("Error",
                 "Failed to analyze website. The website might be blocking access or temporarily unavailable.")
    /\ isLoading' = FALSE
    /\ pc' = "idle"
    /\ report' = <<>>
    /\ errors' = <<>>
    /\ UNCHANGED <<url, reqUrl, html, loadTime>>
    /\ UNCHANGED <<viewVars, gitVars>>

\* The backup attempt fails with the message err: the error leaves
\* fetchWithProxy and analyzeWebsite catches it (lines 66-70, 238-249).
BackupFails(err) ==
    /\ \/ pc = "backup" /\ err \in ResponseErrors
       \/ pc = "backupBody" /\ err = BodyError
    /\ attempts' = Settle(attempts, err)
    /\ status' = "error"
    /\ consoleLogs' = addConsoleLog(consoleLogs, "Analysis failed: " \o err, "error")
    /\ toasts' =
           Toast("Error",
                 "Failed to analyze website. The website might be blocking access or temporarily unavailable.")
    /\ isLoading' = FALSE
    /\ pc' = "idle"
    /\ UNCHANGED <<url, report, errors, reqUrl, html, loadTime>>
    /\ UNCHANGED <<viewVars, gitVars>>

Next ==
    \/ \E u \in Urls : setUrl(u)
    \/ RejectEmpty
    \/ RejectInvalid
    \/ StartAnalysis
    \/ PrimaryResponds
    \/ \E h \in PageHtmls, r \in PageDraws : PrimaryBody(h, r)
    \/ \E err \in ResponseErrors \cup {BodyError} : PrimaryFails(err)
    \/ BackupResponds
    \/ \E h \in PageHtmls, r \in PageDraws : BackupBody(h, r)
    \/ \E err \in ResponseErrors \cup {BodyError} : BackupFails(err)

Spec == Init /\ [][Next]_vars

\* A pending fetch, or the reading of its body, resolves or rejects.
FetchSettles ==
    \/ PrimaryResponds
    \/ \E h \in PageHtmls, r \in PageDraws : PrimaryBody(h, r)
    \/ \E err \in ResponseErrors \cup {BodyError} : PrimaryFails(err)
    \/ BackupResponds
    \/ \E h \in PageHtmls, r \in PageDraws : BackupBody(h, r)
    \/ \E err \in ResponseErrors \cup {BodyError} : BackupFails(err)

\* The page under the assumption that every fetch eventually settles.
SpecLive == Init /\ [][Next]_vars /\ WF_vars(FetchSettles)

-----------------------------------------------------------------------------
(* The analysis alone: a fetched text analysed again and again *)

\* The first call of analyzeWebsite for reqUrl, at the point where the primary
\* proxy has answered with the text html (line 103).
InitAnalysis ==
    /\ reqUrl \in { u \in Urls : ValidURL(u) /\ ~EncodeThrows(u) }
    /\ url = reqUrl
    /\ html \in Htmls
    /\ report = <<>>
    /\ errors = <<>>
    /\ isLoading = TRUE
    /\ consoleLogs =
           << Log("Starting analysis of " \o Str(reqUrl), "info"),
              Log("Attempting to fetch " \o Str(reqUrl), "info"),
              Log("Using primary proxy: allorigins.win", "info"),
              Log("Successfully fetched content", "success") >>
    /\ status = "loading"
    /\ toasts = NoToast
    /\ pc = "primaryBody"
    /\ loadTime = 0
    /\ attempts = <<Attempt(PrimaryProxy, "ok")>>
    /\ ViewInit
    /\ GitInit

\* Mutant of RunAnalysis: the findings are pushed onto the stored ones.
RunAnalysisAccumulating(r) ==
    /\ loadTime' = LoadTimeOf(r)
    /\ report' = newReport(reqUrl, html, LoadTimeOf(r))
    /\ errors' = errors \o newErrors(reqUrl, html, LoadTimeOf(r))
    /\ UNCHANGED <<url, isLoading, consoleLogs, status, toasts, pc, reqUrl, html,
                   attempts>>
    /\ UNCHANGED <<viewVars, gitVars>>

\* Lines 106-230 on the text html with the draw r.
RunAnalysis(r) ==
    /\ loadTime' = LoadTimeOf(r)
    /\ report' = newReport(reqUrl, html, LoadTimeOf(r))
    /\ errors' = newErrors(reqUrl, html, LoadTimeOf(r))
    /\ UNCHANGED <<url, isLoading, consoleLogs, status, toasts, pc, reqUrl, html,
                   attempts>>
    /\ UNCHANGED <<viewVars, gitVars>>

NextAnalysis == \E r \in RandomDraws : RunAnalysis(r)

SpecAnalysis == InitAnalysis /\ [][NextAnalysis]_vars

-----------------------------------------------------------------------------
(* The page that delegates the analysis (part_000, lines 23-99) *)

\* The urls typed into the input of the view.
ViewUrls == {<<>>, DefaultViewUrl, UrlHttp}

\* payload.message of the 'analysis-log' broadcasts
LogMessages == {"Fetching page"}

\* payload.results of the 'analysis-result' broadcasts
ResultPayloads ==
    { <<>>, <<MetricResult("Page Load Time", "1.20s"), MetricResult("HTTPS", "No")>> }

\* The broadcasts other parties send on 'analysis-updates'.
AnalysisLog(m) == [event |-> "analysis-log", message |-> m]

AnalysisResult(r) == [event |-> "analysis-result", results |-> r]

StartRequest(u) == [event |-> "start-analysis", url |-> u]

Broadcasts ==
    { AnalysisLog(m) : m \in LogMessages }
        \cup { AnalysisResult(r) : r \in ResultPayloads }
        \cup { StartRequest(DefaultViewUrl) }

\* How many 'analysis-log' broadcasts are among the first n of the sequence q.
RECURSIVE LogsIn(_, _)
LogsIn(q, n) ==
    IF n = 0 THEN 0
    ELSE LogsIn(q, n - 1) + (IF q[n].event = "analysis-log" THEN 1 ELSE 0)

ViewTypeOK ==
    /\ viewUrl \in ViewUrls
    /\ analyzing \in BOOLEAN
    /\ results \in {InitialResults} \cup ResultPayloads
    /\ Len(viewLogs) <= MaxViewLogs + 1
    /\ sending \in 0..MaxSends
    /\ lastSend \in {"none", "ok", "error"}
    /\ lifecycle \in {"rendered", "subscribed", "unmounted"}
    /\ Len(channel) <= MaxInFlight
    /\ \A i \in 1..Len(channel) : channel[i] \in Broadcasts

\* The effect after the first render (lines 52-70): both handlers are
\* registered and the channel is subscribed.
ViewSubscribe ==
    /\ lifecycle = "rendered"
    /\ lifecycle' = "subscribed"
    /\ UNCHANGED <<viewUrl, analyzing, results, viewLogs, viewToast, sending,
                   lastSend, channel>>
    /\ UNCHANGED <<pageVars, gitVars>>

\* The cleanup of the effect (lines 72-74): the channel is removed.
ViewUnmount ==
    /\ lifecycle = "subscribed"
    /\ lifecycle' = "unmounted"
    /\ UNCHANGED <<viewUrl, analyzing, results, viewLogs, viewToast, sending,
                   lastSend, channel>>
    /\ UNCHANGED <<pageVars, gitVars>>

\* onChange of the url input (line 112)
setViewUrl(u) ==
    /\ lifecycle = "subscribed"
    /\ viewUrl' = u
    /\ UNCHANGED <<analyzing, results, viewLogs, viewToast, sending, lastSend,
                   lifecycle, channel>>
    /\ UNCHANGED <<pageVars, gitVars>>

\* analyzeWebsite with an empty url (lines 78-85); the button is disabled
\* while analyzing (line 117).
ViewRejectEmpty ==
    /\ lifecycle = "subscribed"
    /\ ~analyzing
    /\ viewUrl = <<>>
    /\ viewToast' = Toast("Error", "Please enter a valid URL")
    /\ UNCHANGED <<viewUrl, analyzing, results, viewLogs, sending, lastSend,
                   lifecycle, channel>>
    /\ UNCHANGED <<pageVars, gitVars>>

\* analyzeWebsite with a url, up to the await of send (lines 87-98).
ViewStartAnalysis ==
    /\ lifecycle = "subscribed"
    /\ ~analyzing
    /\ viewUrl # <<>>
    /\ sending < MaxSends
    /\ analyzing' = TRUE
    /\ viewLogs' = <<ConsoleLog("Starting analysis of " \o Str(viewUrl))>>
    /\ sending' = sending + 1
    /\ UNCHANGED <<viewUrl, results, viewToast, lastSend, lifecycle, channel>>
    /\ UNCHANGED <<pageVars, gitVars>>

\* Mutant of ViewSendSettles: analyzing is reset when the send has settled.
ViewSendSettlesResetting(how) ==
    /\ sending > 0
    /\ sending' = sending - 1
    /\ lastSend' = how
    /\ analyzing' = FALSE
    /\ UNCHANGED <<viewUrl, results, viewLogs, viewToast, lifecycle, channel>>
    /\ UNCHANGED <<pageVars, gitVars>>

\* The awaited send resolves ("ok") or fails ("error"); analyzeWebsite ends
\* without another statement (lines 94-99).
ViewSendSettles(how) ==
    /\ sending > 0
    /\ sending' = sending - 1
    /\ lastSend' = how
    /\ UNCHANGED <<viewUrl, analyzing, results, viewLogs, viewToast, lifecycle,
                   channel>>
    /\ UNCHANGED <<pageVars, gitVars>>

\* Another party sends a broadcast on 'analysis-updates'.
Broadcast(ev) ==
    /\ Len(channel) < MaxInFlight
    /\ ev.event = "analysis-log" =>
           Len(viewLogs) + LogsIn(channel, Len(channel)) < MaxViewLogs
    /\ channel' = Append(channel, ev)
    /\ UNCHANGED <<viewUrl, analyzing, results, viewLogs, viewToast, sending,
                   lastSend, lifecycle>>
    /\ UNCHANGED <<pageVars, gitVars>>

\* The oldest broadcast reaches the view: the handler registered for its
\* event runs (lines 56-69); without a subscription, or without a handler for
\* the event, nothing happens.
Deliver ==
    /\ channel # <<>>
    /\ channel' = Tail(channel)
    /\ LET ev == Head(channel)
       IN  IF lifecycle = "subscribed" /\ ev.event = "analysis-log"
           THEN /\ viewLogs' = Append(viewLogs, ConsoleLog(ev.message))
                /\ UNCHANGED <<results, analyzing, viewToast>>
           ELSE IF lifecycle = "subscribed" /\ ev.event = "analysis-result"
           THEN /\ results' = ev.results
                /\ analyzing' = FALSE
                /\ viewToast' =
                       Toast("Analysis Updated",
                             "Website analysis results have been updated")
                /\ UNCHANGED viewLogs
           ELSE UNCHANGED <<results, analyzing, viewToast, viewLogs>>
    /\ UNCHANGED <<viewUrl, sending, lastSend, lifecycle>>
    /\ UNCHANGED <<pageVars, gitVars>>

NextView ==
    \/ ViewSubscribe
    \/ ViewUnmount
    \/ \E u \in ViewUrls : setViewUrl(u)
    \/ ViewRejectEmpty
    \/ ViewStartAnalysis
    \/ \E how \in {"ok", "error"} : ViewSendSettles(how)
    \/ \E ev \in Broadcasts : Broadcast(ev)
    \/ Deliver

SpecView == Init /\ [][NextView]_vars

-----------------------------------------------------------------------------
(* The handler of git operations (part_000, lines 199-404) *)

GithubPrefix ==
    <<"g", "i", "t", "h", "u", "b", ".", "c", "o", "m", "/">>

\* url.match(/github\.com\/([^\/]+)\/([^\/\.]+)/) finds an owner and a
\* repository name (lines 239-240, 294-299): after "github.com/" at least one
\* character up to the next slash, and after that slash a character that is
\* neither a slash nor a dot.
RepoUrlMatches(u) ==
    \E i \in 1..Len(u) :
        /\ MatchAt(u, GithubPrefix, i)
        /\ \E e \in (i + Len(GithubPrefix) + 1)..(Len(u) - 1) :
               /\ u[e] = "/"
               /\ \A k \in (i + Len(GithubPrefix))..(e - 1) : u[k] # "/"
               /\ u[e + 1] \notin {"/", "."}

\* The bodies the handler is called with.
RequestTypes == {"getLastCommit", "push", "pull"}

Requests ==
    { Request(ty, src, tgt) :
          ty \in RequestTypes, src \in {"r1", UnknownId}, tgt \in {"r2", UnknownId, NoId} }
        \cup {BadBody}

\* commit.sha, sourceBranch.commit.sha (lines 262, 353)
Sha == "abc123"

\* One remote call of the current request: the api called, the repository it
\* is about, and "pending", "ok" or "error".  An octokit call that ends in
\* "error" throws; a supabase call that ends in "error" returns the error.
Call(api, repo, outcome) == [api |-> api, repo |-> repo, outcome |-> outcome]

\* The outcome of the last call is set.
SettleCall(calls, outcome) == [calls EXCEPT ![Len(calls)].outcome = outcome]

GitTypeOK ==
    /\ gitPc \in {"idle", "json", "select", "sourceRepo", "sourceBranch", "targetRepo",
                  "merge", "update", "lcSelect", "lcRepo", "lcCommit", "lcUpdate"}
    /\ gitReq \in Requests
    /\ Len(gitCalls) <= 6
    /\ \A id \in RepoIds :
           /\ rows[id].url \in RepoUrls
           /\ rows[id].status \in {"pending", "synced"}
    /\ gitResp.status \in {0, 200, 500}

\* return new Response(JSON.stringify({ success, ... }), { status }): the
\* handler has answered the request.
Respond(calls, st, success, message) ==
    /\ gitCalls' = calls
    /\ gitResp' = Response(st, TRUE, success, message)
    /\ gitPc' = "idle"

\* The next remote call is made and awaited.
Await(calls, api, repo, at) ==
    /\ gitCalls' = Append(calls, Call(api, repo, "pending"))
    /\ gitPc' = at
    /\ UNCHANGED gitResp

\* The update of lines 264-272 and 348-356 applied to the rows with an id in ids.
Synced(rs, ids) ==
    [id \in RepoIds |->
         IF id \in ids THEN [rs[id] EXCEPT !.status = "synced", !.last_commit = Sha]
         ELSE rs[id]]

\* A row of 'repositories' is edited outside the handler.
EditRow(id, u) ==
    /\ rows' = [rows EXCEPT ![id] = Row(u, "pending", "none")]
    /\ UNCHANGED <<gitPc, gitReq, gitCalls, gitResp>>
    /\ UNCHANGED <<pageVars, viewVars>>

\* A preflight request (lines 200-202); no body is read.
GitOptions ==
    /\ gitPc = "idle"
    /\ gitResp' = Response(200, FALSE, FALSE, "ok")
    /\ gitReq' = BadBody
    /\ gitCalls' = <<>>
    /\ UNCHANGED <<gitPc, rows>>
    /\ UNCHANGED <<pageVars, viewVars>>

\* A request with the body req arrives; its body is awaited (line 205).
GitReceive(req) ==
    /\ gitPc = "idle"
    /\ gitPc' = "json"
    /\ gitReq' = req
    /\ gitCalls' = <<>>
    /\ gitResp' = NoResponse
    /\ UNCHANGED rows
    /\ UNCHANGED <<pageVars, viewVars>>

\* The body has been read (lines 205-271 and 382-404): the token is checked
\* and the operation chosen; what is neither 'getLastCommit' nor a 'push'
\* with a target falls through to the last response.
GitDispatch(tokenSet) ==
    /\ gitPc = "json"
    /\ IF ~gitReq.parses
       THEN Respond(gitCalls, 500, FALSE, "Unexpected end of JSON input")
       ELSE IF ~tokenSet
       THEN Respond(gitCalls, 500, FALSE, "GitHub token not configured")
       ELSE IF gitReq.type = "getLastCommit"
       THEN Await(gitCalls, "from.select", "source", "lcSelect")
       ELSE IF gitReq.type = "push" /\ gitReq.targetRepoId # NoId
       THEN Await(gitCalls, "from.select", "both", "select")
       ELSE Respond(gitCalls, 200, TRUE,
                    "Git " \o gitReq.type \o " operation completed successfully")
    /\ UNCHANGED <<gitReq, rows>>
    /\ UNCHANGED <<pageVars, viewVars>>

Outcomes == {"ok", "error"}

\* getLastCommit: the row of the source has been selected (lines 226-241).
\* single() returns an error when there is no such row.
GitLastCommitSelected(out) ==
    /\ gitPc = "lcSelect"
    /\ out = "ok" => gitReq.sourceRepoId \in RepoIds
    /\ IF out = "error"
       THEN Respond(SettleCall(gitCalls, out), 500, FALSE, "select failed")
       ELSE IF ~RepoUrlMatches(rows[gitReq.sourceRepoId].url)
       THEN Respond(SettleCall(gitCalls, out), 500, FALSE, "Invalid repository URL format")
       ELSE Await(SettleCall(gitCalls, out), "repos.get", "source", "lcRepo")
    /\ UNCHANGED <<gitReq, rows>>
    /\ UNCHANGED <<pageVars, viewVars>>

\* getLastCommit: repos.get has settled (lines 244-253).
GitLastCommitRepo(out) ==
    /\ gitPc = "lcRepo"
    /\ IF out = "error"
       THEN Respond(SettleCall(gitCalls, out), 500, FALSE, "repos.get failed")
       ELSE Await(SettleCall(gitCalls, out), "repos.getCommit", "source", "lcCommit")
    /\ UNCHANGED <<gitReq, rows>>
    /\ UNCHANGED <<pageVars, viewVars>>

\* getLastCommit: repos.getCommit has settled (lines 249-272).
GitLastCommitCommit(out) ==
    /\ gitPc = "lcCommit"
    /\ IF out = "error"
       THEN Respond(SettleCall(gitCalls, out), 500, FALSE, "repos.getCommit failed")
       ELSE Await(SettleCall(gitCalls, out), "from.update", "source", "lcUpdate")
    /\ UNCHANGED <<gitReq, rows>>
    /\ UNCHANGED <<pageVars, viewVars>>

\* getLastCommit: the update has settled; what it returned is not looked at
\* (lines 264-277).
GitLastCommitUpdated(out) ==
    /\ gitPc = "lcUpdate"
    /\ rows' = IF out = "ok" THEN Synced(rows, {gitReq.sourceRepoId}) ELSE rows
    /\ Respond(SettleCall(gitCalls, out), 200, TRUE, "commit")
    /\ UNCHANGED gitReq
    /\ UNCHANGED <<pageVars, viewVars>>

\* push: the rows of source and target have been selected (lines 274-305).
GitPushSelected(out) ==
    /\ gitPc = "select"
    /\ IF out = "error"
       THEN Respond(SettleCall(gitCalls, out), 500, FALSE, "select failed")
       ELSE IF gitReq.sourceRepoId \notin RepoIds \/ gitReq.targetRepoId \notin RepoIds
       THEN Respond(SettleCall(gitCalls, out), 500, FALSE,
                    "Source or target repository not found")
       ELSE IF \/ ~RepoUrlMatches(rows[gitReq.sourceRepoId].url)
               \/ ~RepoUrlMatches(rows[gitReq.targetRepoId].url)
       THEN Respond(SettleCall(gitCalls, out), 500, FALSE, "Invalid repository URL format")
       ELSE Await(SettleCall(gitCalls, out), "repos.get", "source", "sourceRepo")
    /\ UNCHANGED <<gitReq, rows>>
    /\ UNCHANGED <<pageVars, viewVars>>

\* push: repos.get of the source has settled (lines 302-316).
GitSourceRepo(out) ==
    /\ gitPc = "sourceRepo"
    /\ IF out = "error"
       THEN Respond(SettleCall(gitCalls, out), 500, FALSE, "repos.get failed")
       ELSE Await(SettleCall(gitCalls, out), "repos.getBranch", "source", "sourceBranch")
    /\ UNCHANGED <<gitReq, rows>>
    /\ UNCHANGED <<pageVars, viewVars>>

\* push: repos.getBranch of the source has settled (lines 312-327).
GitSourceBranch(out) ==
    /\ gitPc = "sourceBranch"
    /\ IF out = "error"
       THEN Respond(SettleCall(gitCalls, out), 500, FALSE, "repos.getBranch failed")
       ELSE Await(SettleCall(gitCalls, out), "repos.get", "target", "targetRepo")
    /\ UNCHANGED <<gitReq, rows>>
    /\ UNCHANGED <<pageVars, viewVars>>

\* push: repos.get of the target has settled (lines 324-341).
GitTargetRepo(out) ==
    /\ gitPc = "targetRepo"
    /\ IF out = "error"
       THEN Respond(SettleCall(gitCalls, out), 500, FALSE, "repos.get failed")
       ELSE Await(SettleCall(gitCalls, out), "repos.merge", "target", "merge")
    /\ UNCHANGED <<gitReq, rows>>
    /\ UNCHANGED <<pageVars, viewVars>>

\* Mutant of GitMerged: the rows are updated whether or not the merge succeeded.
GitMergedUpdatingAnyway(out) ==
    /\ gitPc = "merge"
    /\ Await(SettleCall(gitCalls, out), "from.update", "both", "update")
    /\ UNCHANGED <<gitReq, rows>>
    /\ UNCHANGED <<pageVars, viewVars>>

\* push: repos.merge has settled (lines 333-356 and 366-379); a failed merge
\* ends in the inner catch block.
GitMerged(out) ==
    /\ gitPc = "merge"
    /\ IF out = "error"
       THEN Respond(SettleCall(gitCalls, out), 500, FALSE, "repos.merge failed")
       ELSE Await(SettleCall(gitCalls, out), "from.update", "both", "update")
    /\ UNCHANGED <<gitReq, rows>>
    /\ UNCHANGED <<pageVars, viewVars>>

\* push: the update has settled; what it returned is not looked at
\* (lines 348-365).
GitPushUpdated(out) ==
    /\ gitPc = "update"
    /\ rows' = IF out = "ok"
               THEN Synced(rows, {gitReq.sourceRepoId, gitReq.targetRepoId})
               ELSE rows
    /\ Respond(SettleCall(gitCalls, out), 200, TRUE, "Push operation completed successfully")
    /\ UNCHANGED gitReq
    /\ UNCHANGED <<pageVars, viewVars>>

NextGit ==
    \/ \E id \in RepoIds, u \in RepoUrls : EditRow(id, u)
    \/ GitOptions
    \/ \E req \in Requests : GitReceive(req)
    \/ \E tokenSet \in BOOLEAN : GitDispatch(tokenSet)
    \/ \E out \in Outcomes : GitLastCommitSelected(out)
    \/ \E out \in Outcomes : GitLastCommitRepo(out)
    \/ \E out \in Outcomes : GitLastCommitCommit(out)
    \/ \E out \in Outcomes : GitLastCommitUpdated(out)
    \/ \E out \in Outcomes : GitPushSelected(out)
    \/ \E out \in Outcomes : GitSourceRepo(out)
    \/ \E out \in Outcomes : GitSourceBranch(out)
    \/ \E out \in Outcomes : GitTargetRepo(out)
    \/ \E out \in Outcomes : GitMerged(out)
    \/ \E out \in Outcomes : GitPushUpdated(out)

SpecGit == Init /\ [][NextGit]_vars

-----------------------------------------------------------------------------
(* Vocabulary of the properties, defined apart from the operators above *)

\* s contains needle as a contiguous run of characters.
Contains(s, needle) ==
    \E i \in 0..(Len(s) - Len(needle)) : SubSeq(s, i + 1, i + Len(needle)) = needle

\* s begins with prefix.
HasPrefix(s, prefix) ==
    Len(s) >= Len(prefix) /\ SubSeq(s, 1, Len(prefix)) = prefix

\* The elements of a sequence.
Range(s) == { s[i] : i \in 1..Len(s) }

\* The nineteen metric names in the order of presentation.
MetricNames ==
    << "Page Load Time", "Page Size", "Images Count", "Mobile Viewport",
       "Meta Description", "Favicon", "H1 Tag", "Canonical Tag", "HTTPS",
       "Robots.txt", "Sitemap", "Schema Markup", "Open Graph Tags", "Twitter Cards",
       "Image Alt Tags", "HTML Lang Attribute", "Structured Data", "AMP Version",
       "Web App Manifest" >>

\* The metrics that are neither the load time, the size nor the count.
BooleanMetrics == { MetricNames[i] : i \in 4..19 }

\* The value a report gives for the metric named m ("?" when there is none).
ValueOf(rep, m) ==
    IF \E i \in 1..Len(rep) : rep[i].metric = m
    THEN rep[CHOOSE i \in 1..Len(rep) : rep[i].metric = m].value
    ELSE "?"

\* The nine findings in the order of the rules.
RuleOrder ==
    << SecurityFinding, PerformanceFinding, MobileFinding, DescriptionFinding,
       H1Finding, SchemaFinding, SocialFinding, AltFinding, LangFinding >>

RECURSIVE IsSubsequence(_, _)
\* s can be obtained from t by deleting elements.
IsSubsequence(s, t) ==
    IF s = <<>> THEN TRUE
    ELSE IF t = <<>> THEN FALSE
    ELSE IF Head(s) = Head(t) THEN IsSubsequence(Tail(s), Tail(t))
    ELSE IsSubsequence(s, Tail(t))

\* A report has been produced in this state.
Analysed == report # <<>>

-----------------------------------------------------------------------------
(* Properties *)

\* C1: every report produced by an analysis has exactly 19 entries whose names
\* are pairwise distinct and are the fixed sequence of metric names, whatever
\* the url and the html.
C1_FixedMetricSequence ==
    Analysed =>
        /\ Len(report) = 19
        /\ \A i \in 1..19 : report[i].metric = MetricNames[i]
        /\ \A i, j \in 1..Len(report) : i # j => report[i].metric # report[j].metric

\* C1 witness: a report of a text that carries some of the literals.
C1_Witness ==
    /\ Analysed
    /\ Contains(html, H1Marker)
    /\ Contains(html, SchemaMarker)
    /\ report[19].metric = "Web App Manifest"

\* C2 as stated: for the empty html every boolean metric is "Missing", HTTPS
\* being "Yes" or "No" by the url prefix, and Page Size is "0.00 KB".
C2_EmptyHtmlAllMissing ==
    (Analysed /\ html = <<>>) =>
        /\ \A m \in BooleanMetrics \ {"HTTPS"} : ValueOf(report, m) = "Missing"
        /\ ValueOf(report, "HTTPS") = (IF HasPrefix(reqUrl, HttpsPrefix) THEN "Yes" ELSE "No")
        /\ ValueOf(report, "Page Size") = "0.00 KB"

\* C2 amended: for the empty html every boolean metric other than HTTPS and
\* Image Alt Tags is "Missing", Image Alt Tags is "Present", HTTPS is "Yes" or
\* "No" by the url prefix, and Page Size is "0.00 KB".
C2_EmptyHtmlReport ==
    (Analysed /\ html = <<>>) =>
        /\ \A m \in BooleanMetrics \ {"HTTPS", "Image Alt Tags"} :
               ValueOf(report, m) = "Missing"
        /\ ValueOf(report, "Image Alt Tags") = "Present"
        /\ ValueOf(report, "HTTPS") = (IF HasPrefix(reqUrl, HttpsPrefix) THEN "Yes" ELSE "No")
        /\ ValueOf(report, "Page Size") = "0.00 KB"

\* C2 witness: the empty text analysed for an https url.
C2_Witness ==
    /\ Analysed
    /\ html = <<>>
    /\ HasPrefix(reqUrl, HttpsPrefix)
    /\ ValueOf(report, "HTTPS") = "Yes"

\* C3 as stated: a second analysis of the same url and html leaves the findings
\* and every metric but Page Load Time as they were.
C3_Idempotent ==
    [][Analysed =>
          /\ errors' = errors
          /\ Len(report') = Len(report)
          /\ \A i \in 1..Len(report) :
                 report[i].metric # "Page Load Time" => report'[i] = report[i]]_vars

\* C3 amended: a second analysis of the same url and html leaves every metric
\* but the value of Page Load Time as it was, and leaves the findings as they
\* were apart from the Performance finding, which follows the load time drawn.
C3_IdempotentButLoadTime ==
    [][Analysed =>
          /\ SelectSeq(errors', LAMBDA e : e # PerformanceFinding)
                 = SelectSeq(errors, LAMBDA e : e # PerformanceFinding)
          /\ Len(report') = Len(report)
          /\ \A i \in 1..Len(report) :
                 /\ report'[i].metric = report[i].metric
                 /\ report[i].metric # "Page Load Time" => report'[i] = report[i]]_vars

\* C3 witness: a text with an image analysed with a draw above two seconds,
\* one of the several draws the same text is analysed with.
C3_Witness ==
    /\ Analysed
    /\ loadTime > 2 * Second
    /\ PerformanceFinding \in Range(errors)
    /\ Contains(html, ImgMarker)

\* C4: in every report each finding that rests on a metric is present exactly
\* when that metric has failed: Security iff HTTPS is "No", and the Mobile, SEO,
\* Social and Accessibility findings iff their metric is "Missing"; a text
\* with '<html lang="' has HTML Lang Attribute "Present" and no lang finding.
C4_FindingsAgreeWithMetrics ==
    Analysed =>
        /\ SecurityFinding \in Range(errors) <=> ValueOf(report, "HTTPS") = "No"
        /\ MobileFinding \in Range(errors) <=> ValueOf(report, "Mobile Viewport") = "Missing"
        /\ DescriptionFinding \in Range(errors)
               <=> ValueOf(report, "Meta Description") = "Missing"
        /\ H1Finding \in Range(errors) <=> ValueOf(report, "H1 Tag") = "Missing"
        /\ SchemaFinding \in Range(errors) <=> ValueOf(report, "Schema Markup") = "Missing"
        /\ SocialFinding \in Range(errors) <=> ValueOf(report, "Open Graph Tags") = "Missing"
        /\ AltFinding \in Range(errors) <=> ValueOf(report, "Image Alt Tags") = "Missing"
        /\ LangFinding \in Range(errors)
               <=> ValueOf(report, "HTML Lang Attribute") = "Missing"
        /\ Contains(html, LangMarker) =>
               /\ ValueOf(report, "HTML Lang Attribute") = "Present"
               /\ LangFinding \notin Range(errors)

\* C4 witness: a text with the lang attribute and without an h1, analysed.
C4_Witness ==
    /\ Analysed
    /\ Contains(html, LangMarker)
    /\ ~Contains(html, H1Marker)
    /\ H1Finding \in Range(errors)
    /\ LangFinding \notin Range(errors)

\* The literals of a presence metric: the metric is present when the text
\* contains one of them.
LiteralsOf(m) ==
    CASE m = "H1 Tag" -> {H1Marker}
      [] m = "Mobile Viewport" -> {ViewportMarker}
      [] m = "Meta Description" -> {DescriptionMarker}
      [] m = "Favicon" -> {IconMarker, ShortcutIconMarker}
      [] m = "Canonical Tag" -> {CanonicalMarker}
      [] m = "Robots.txt" -> {RobotsMarker}
      [] m = "Sitemap" -> {SitemapMarker}
      [] m = "Schema Markup" -> {SchemaMarker}
      [] m = "Open Graph Tags" -> {OpenGraphMarker}
      [] m = "Twitter Cards" -> {TwitterMarker}
      [] m = "HTML Lang Attribute" -> {LangMarker}
      [] m = "Structured Data" -> {ContextMarker}
      [] m = "AMP Version" -> {AmpMarker}
      [] m = "Web App Manifest" -> {ManifestMarker}

\* The fourteen presence metrics.
PresenceMetrics == BooleanMetrics \ {"HTTPS", "Image Alt Tags"}

\* C5: each of the fourteen presence metrics is "Present" exactly when the
\* html contains its literal (one of its two literals for Favicon) and
\* "Missing" otherwise, whatever the other literals in the html and the url.
C5_PresenceByLiteral ==
    Analysed =>
        \A m \in PresenceMetrics :
            ValueOf(report, m) =
                (IF \E lit \in LiteralsOf(m) : Contains(html, lit)
                 THEN "Present" ELSE "Missing")

\* C5 witness: a text whose only literal is the shortcut icon.
C5_Witness ==
    /\ Analysed
    /\ html = ShortcutIconMarker
    /\ ValueOf(report, "Favicon") = "Present"
    /\ ValueOf(report, "H1 Tag") = "Missing"

\* C6: Image Alt Tags is "Present" iff the html has no '<img' or has 'alt="'
\* somewhere; '<img' without 'alt="' gives "Missing" and the Accessibility/high
\* finding, and no '<img' gives "Present" and no such finding.
C6_ImageAltTags ==
    Analysed =>
        /\ ValueOf(report, "Image Alt Tags") = "Present"
               <=> (~Contains(html, ImgMarker) \/ Contains(html, AltMarker))
        /\ (Contains(html, ImgMarker) /\ ~Contains(html, AltMarker)) =>
               /\ ValueOf(report, "Image Alt Tags") = "Missing"
               /\ AltFinding \in Range(errors)
        /\ ~Contains(html, ImgMarker) =>
               /\ ValueOf(report, "Image Alt Tags") = "Present"
               /\ AltFinding \notin Range(errors)

\* C6 witness: a text with an image and no alt attribute, analysed.
C6_Witness ==
    /\ Analysed
    /\ Contains(html, ImgMarker)
    /\ ~Contains(html, AltMarker)
    /\ AltFinding \in Range(errors)

\* Texts and urls a report is compared against.
OtherHtmls == {<<>>, ImgMarker, LangMarker \o H1Marker}
OtherUrls == {UrlHttp, UrlHttps, UrlUpper}

\* C7: HTTPS is "Yes" iff the url starts with 'https://' and "No" otherwise;
\* another html gives the same HTTPS value, and another url changes no metric
\* but HTTPS.
C7_HttpsByUrlPrefix ==
    Analysed =>
        /\ ValueOf(report, "HTTPS") = (IF HasPrefix(reqUrl, HttpsPrefix) THEN "Yes" ELSE "No")
        /\ \A h \in OtherHtmls :
               ValueOf(newReport(reqUrl, h, loadTime), "HTTPS") = ValueOf(report, "HTTPS")
        /\ \A u \in OtherUrls :
               [newReport(u, html, loadTime) EXCEPT ![9] = report[9]] = report

\* C7 witness: a url whose scheme is https in capitals, analysed with a text
\* that is not empty.
C7_Witness ==
    /\ Analysed
    /\ reqUrl = UrlUpper
    /\ html # <<>>
    /\ ValueOf(report, "HTTPS") = "No"

\* The findings of the rules whose index is in S, in the order of the rules.
FindingsOf(S) == Pick([i \in 1..9 |-> <<RuleOrder[i]>>], S, 1)

\* The lists of findings the analysis gives over the urls, the combinations of
\* literals and the draws.
ProducibleFindings ==
    { newErrors(u, h, LoadTimeOf(r)) : u \in OtherUrls, h \in CoreDocs, r \in RandomDraws }

\* The list of findings of every subset of the nine rules.
AllFindingLists == { FindingsOf(S) : S \in SUBSET (1..9) }

\* C8: the findings of every report are a subsequence of the fixed order of
\* the nine rules, so that no finding appears twice and the relative order
\* never changes, and every subset of the nine rules is the findings of some
\* analysis.
C8_FindingsInRuleOrder ==
    /\ Analysed => IsSubsequence(errors, RuleOrder)
    /\ AllFindingLists \subseteq ProducibleFindings

\* C8 witness: an analysis in which all nine rules fire.
C8_Witness ==
    /\ Analysed
    /\ errors = RuleOrder

\* An outcome that is the message of an error.
Failed(outcome) == outcome \notin {"pending", "ok"}

\* The step in which the backup attempt of the running call fails.
BackupFailure ==
    /\ pc \in {"backup", "backupBody"}
    /\ Len(attempts') = 2
    /\ Failed(attempts'[2].outcome)

\* C9: when the backup fetch fails after the primary one, the call ends with
\* status "error" and one error entry in the log, which carries the message of
\* the backup attempt; the analysis has not run (no text, no analysis entry in
\* the log), and the stored report and findings are what they were.
C9_BothProxiesFail ==
    [][BackupFailure =>
          /\ status' = "error"
          /\ pc' = "idle"
          /\ Len(consoleLogs') = Len(consoleLogs) + 1
          /\ consoleLogs'[Len(consoleLogs')]
                 = [message |-> "Analysis failed: " \o attempts'[2].outcome, type |-> "error"]
          /\ \A i \in 1..Len(consoleLogs) :
                 /\ consoleLogs'[i] = consoleLogs[i]
                 /\ consoleLogs[i].type # "error"
                 /\ consoleLogs[i].message # "Completed basic analysis"
          /\ html' = <<>>
          /\ report' = report
          /\ errors' = errors]_vars

\* C9 witness: both attempts of a call have failed, with different messages,
\* while a report of an earlier call is stored.
C9_Witness ==
    /\ pc = "idle"
    /\ Len(attempts) = 2
    /\ Failed(attempts[2].outcome)
    /\ attempts[1].outcome # attempts[2].outcome
    /\ status = "error"
    /\ report # <<>>
    /\ errors # <<>>

\* C10: in one call of analyzeWebsite the first fetch goes to the primary
\* proxy, a second fetch is made iff the primary attempt failed and goes to the
\* backup proxy, and there is no third; a primary attempt that succeeded is
\* the only fetch of its call.
C10_SingleFallback ==
    /\ Len(attempts) <= 2
    /\ pc # "idle" => Len(attempts) >= 1
    /\ Len(attempts) >= 1 => attempts[1].proxy = PrimaryProxy
    /\ Len(attempts) = 2 => attempts[2].proxy = BackupProxy
    /\ Len(attempts) = 2 <=> (Len(attempts) >= 1 /\ Failed(attempts[1].outcome))
    /\ (Len(attempts) >= 1 /\ attempts[1].outcome = "ok") => Len(attempts) = 1

\* C10 witness: the body of the primary answer could not be read and the
\* backup proxy has answered with a text.
C10_Witness ==
    /\ Len(attempts) = 2
    /\ attempts[1].outcome = BodyError
    /\ attempts[2].proxy = BackupProxy
    /\ attempts[2].outcome = "ok"
    /\ status = "success"

\* The urls of the model that are empty or not valid absolute urls.
InvalidUrls == {<<>>, UrlNoScheme, UrlNoHost}

\* C11: while the url is empty or not a valid absolute url, submitting it (and
\* any other step of the idle page) contacts no proxy and leaves isLoading,
\* status, the console logs, the report and the findings unchanged; the only
\* thing the submission does is show an "Error" toast.
C11_InvalidUrlRejected ==
    [][(pc = "idle" /\ url \in InvalidUrls) =>
          /\ pc' = "idle"
          /\ attempts' = attempts
          /\ UNCHANGED <<isLoading, status, consoleLogs, report, errors>>
          /\ toasts' # toasts =>
                 /\ toasts'.title = "Error"
                 /\ toasts'.description =
                        (IF url = <<>> THEN "Please enter a URL" ELSE "Please enter a valid URL")]_vars

\* C11 witness: a url without a scheme has been submitted and rejected after
\* an earlier analysis had succeeded.
C11_Witness ==
    /\ url = UrlNoScheme
    /\ toasts = Toast("Error", "Please enter a valid URL")
    /\ pc = "idle"
    /\ status = "success"
    /\ report # <<>>
    /\ consoleLogs # <<>>

\* The step in which the text of a proxy's answer arrives.
TextArrives ==
    /\ pc \in {"primaryBody", "backupBody"}
    /\ Len(attempts') = Len(attempts)
    /\ attempts'[Len(attempts')].outcome = "ok"

\* C12: whenever a fetch of a validated url returns a text, empty and
\* malformed ones included, the call ends with status "success" and a stored
\* report of that text; status is "error" only when the last fetch of the call
\* has failed.
C12_AnalysisTotal ==
    /\ [][TextArrives =>
             /\ status' = "success"
             /\ pc' = "idle"
             /\ ~isLoading'
             /\ Len(report') = 19
             /\ ValueOf(report', "Page Size") = ToFixed2(Utf8Len(html'), 1024) \o " KB"]_vars
    /\ [](status = "error" =>
             /\ Len(attempts) >= 1
             /\ Failed(attempts[Len(attempts)].outcome))

\* C12 witness: the empty text has been analysed with success for a url whose
\* primary attempt was never made.
C12_Witness ==
    /\ status = "success"
    /\ pc = "idle"
    /\ html = <<>>
    /\ reqUrl = UrlLoneSurrogate
    /\ Len(report) = 19

\* n hundredths of a second as toFixed(2) shows them, for n below a thousand.
Shown(n) ==
    ToString(n \div 100) \o "." \o ToString((n \div 10) % 10) \o ToString(n % 10) \o "s"

\* The load time lies in [0.5 s, 3.5 s) and the Performance finding is there
\* iff it is above two seconds.
LoadTimeRule ==
    /\ 2 * loadTime >= Second
    /\ 2 * loadTime < 7 * Second
    /\ PerformanceFinding \in Range(errors) <=> loadTime > 2 * Second

\* C13 as stated: the load time lies in [0.5 s, 3.5 s), the Performance
\* finding is emitted iff it is above 2.0 s, and the finding is never emitted
\* when the Page Load Time shown is at most "2.00s".
C13_FindingFollowsShownTime ==
    Analysed =>
        /\ LoadTimeRule
        /\ ValueOf(report, "Page Load Time") \in { Shown(n) : n \in 0..200 } =>
               PerformanceFinding \notin Range(errors)

\* C13 amended: the load time lies in [0.5 s, 3.5 s), the Performance finding
\* is emitted iff it is above 2.0 s, and the finding is never emitted when the
\* Page Load Time shown is below "2.00s"; with "2.00s" shown it is emitted
\* when the load time is above 2.0 s and below 2.005 s.
C13_FindingFollowsLoadTime ==
    Analysed =>
        /\ LoadTimeRule
        /\ ValueOf(report, "Page Load Time") \in { Shown(n) : n \in 0..199 } =>
               PerformanceFinding \notin Range(errors)
        /\ ValueOf(report, "Page Load Time") = Shown(200) =>
               (PerformanceFinding \in Range(errors)
                    <=> (loadTime > 2 * Second /\ 200 * loadTime < 401 * Second))

\* C13 witness: a load time just above two seconds, shown as "2.00s", with the
\* Performance finding.
C13_Witness ==
    /\ Analysed
    /\ loadTime > 2 * Second
    /\ ValueOf(report, "Page Load Time") = "2.00s"
    /\ PerformanceFinding \in Range(errors)

\* The console log of a call for the url u that ran alone and whose fetches
\* ended as atts says.
AloneLogs(u, atts) ==
    LET last == atts[Len(atts)]
        primaryTried == atts[1].proxy = PrimaryProxy
    IN  << Log("Starting analysis of " \o Str(u), "info"),
           Log("Attempting to fetch " \o Str(u), "info") >>
        \o (IF primaryTried
            THEN <<Log("Using primary proxy: allorigins.win", "info")>> ELSE <<>>)
        \o (IF primaryTried /\ atts[1].outcome = "ok"
            THEN <<Log("Successfully fetched content", "success")>>
            ELSE <<Log("Primary proxy failed, trying backup proxy", "info")>>
                 \o (IF last.outcome = "ok"
                     THEN <<Log("Successfully fetched content using backup proxy",
                                "success")>>
                     ELSE <<>>))
        \o (IF last.outcome = "ok"
            THEN << Log("Completed basic analysis", "success"),
                    Log("Analysis completed successfully", "success") >>
            ELSE <<Log("Analysis failed: " \o last.outcome, "error")>>)

C15_AnalysisEnds ==
    /\ [](isLoading => <>(~isLoading /\ status \in {"success", "error"}))
    /\ [](status = "loading" => isLoading)
    /\ [][status # "idle" => status' # "idle"]_vars

\* C15 witness: a call has ended in "error" after a network error of the
\* primary proxy and an HTTP error of the backup proxy.
C15_Witness ==
    /\ ~isLoading
    /\ status = "error"
    /\ Len(attempts) = 2
    /\ attempts[1].outcome = NetworkError
    /\ attempts[2].outcome = HttpError(503)

\* A step in which the handler of 'analysis-result' runs in the view.
ResultReceived ==
    /\ lifecycle = "subscribed"
    /\ channel # <<>>
    /\ Head(channel).event = "analysis-result"
    /\ channel' = Tail(channel)

\* C16: in the view that delegates the analysis, analyzing goes from true to
\* false only in a step that receives an 'analysis-result' broadcast; a send
\* that completes or fails, and a received 'analysis-log', leave analyzing as
\* it is; and every received result replaces results by its payload and
\* clears analyzing, whether or not the view had asked for an analysis.
C16_ResetOnlyByResult ==
    [][/\ (analyzing /\ ~analyzing') => ResultReceived
       /\ ResultReceived => (results' = Head(channel).results /\ ~analyzing')
       /\ sending' < sending => analyzing' = analyzing
       /\ (/\ channel # <<>>
           /\ channel' = Tail(channel)
           /\ Head(channel).event = "analysis-log") => analyzing' = analyzing]_vars

\* An analysis was asked for, its send failed, a log arrived, and the result
\* that arrived afterwards replaced the results and cleared analyzing.
C16_Witness ==
    /\ ~analyzing
    /\ sending = 0
    /\ lastSend = "error"
    /\ Len(viewLogs) = 2
    /\ viewLogs[1] = ConsoleLog("Starting analysis of https://pwaburton.co.uk")
    /\ results = <<>>
    /\ viewToast.title = "Analysis Updated"

\* The remote calls of a push, in the order of lines 274-356.
PushOrder ==
    << <<"from.select", "both">>, <<"repos.get", "source">>,
       <<"repos.getBranch", "source">>, <<"repos.get", "target">>,
       <<"repos.merge", "target">>, <<"from.update", "both">> >>

\* The current request is a push that got past the guard of line 271.
PushRunning == gitReq.type = "push" /\ gitCalls # <<>>

\* A step in which the handler writes a row.
RowSynced == \E id \in RepoIds : rows'[id] # rows[id] /\ rows'[id].status = "synced"

\* C17: the remote calls of a push are made in the order select, get source
\* repo, get source branch, get target repo, merge, update, each only after
\* the one before it succeeded; a row is written as 'synced' only in a step
\* after the merge call succeeded, and only the rows of source and target;
\* and once the merge or a call before it has failed the handler has answered
\* 500 with success false and has made no update call.
C17_PushOrder ==
    /\ [](PushRunning =>
            /\ Len(gitCalls) <= Len(PushOrder)
            /\ \A i \in 1..Len(gitCalls) :
                   /\ <<gitCalls[i].api, gitCalls[i].repo>> = PushOrder[i]
                   /\ i < Len(gitCalls) => gitCalls[i].outcome = "ok"
            /\ (\E i \in 1..Len(gitCalls) :
                    gitCalls[i].api # "from.update" /\ gitCalls[i].outcome = "error") =>
                   /\ gitPc = "idle"
                   /\ gitResp = Response(500, TRUE, FALSE, gitResp.message)
                   /\ \A i \in 1..Len(gitCalls) : gitCalls[i].api # "from.update")
    /\ [][(PushRunning /\ RowSynced) =>
              /\ Len(gitCalls) = 6
              /\ gitCalls[5] = Call("repos.merge", "target", "ok")
              /\ gitCalls'[6] = Call("from.update", "both", "ok")
              /\ \A id \in RepoIds :
                     rows'[id] # rows[id] =>
                         id \in {gitReq.sourceRepoId, gitReq.targetRepoId}]_vars

\* A push whose merge failed: four calls succeeded, the handler answered 500,
\* and both rows are as they were.
C17_Witness ==
    /\ gitReq = Request("push", "r1", "r2")
    /\ gitPc = "idle"
    /\ Len(gitCalls) = 5
    /\ gitCalls[5] = Call("repos.merge", "target", "error")
    /\ gitResp = Response(500, TRUE, FALSE, "repos.merge failed")
    /\ \A id \in RepoIds : rows[id].status = "pending"

\* C18: whenever the handler has answered a request of type 'push' with
\* success true, a merge was made and succeeded and the rows were updated
\* during that request.
C18_PushSuccessMeansMerged ==
    (gitPc = "idle" /\ gitReq.parses /\ gitReq.type = "push" /\ gitResp.success) =>
        /\ \E i \in 1..Len(gitCalls) : gitCalls[i] = Call("repos.merge", "target", "ok")
        /\ \E i \in 1..Len(gitCalls) : gitCalls[i] = Call("from.update", "both", "ok")

\* A push without a target answered with success true and no remote call.
C18_Witness ==
    /\ gitPc = "idle"
    /\ gitReq = Request("push", "r1", NoId)
    /\ gitResp = Response(200, TRUE, TRUE, "Git push operation completed successfully")
    /\ gitCalls = <<>>

=============================================================================
